---- MODULE Spec2Model ----
(***************************************************************************)
(* Terminal Time Tracker: the command-line tracker of src/cli.js.          *)
(*                                                                         *)
(* Persisted state is two files next to the script: data.json (the entry   *)
(* store) and active_counter.json (the single active counter).  Every      *)
(* command of executeCommand is one atomic action: the program is single-  *)
(* threaded and synchronous, and a command runs to completion before the   *)
(* next one is read.  All Date.now() readings of one command return the    *)
(* same instant; the clock advances between commands (Tick).               *)
(*                                                                         *)
(* Text is modelled as tuples of one-character strings so that parseFloat, *)
(* the date pattern and join(' ') are computed, not assumed.               *)
(*                                                                         *)
(* The browser front end (src/components/Terminal.tsx over                 *)
(* src/services/storage.ts) keeps its own entry store in localStorage; a   *)
(* behaviour runs one of the two front ends (program).                     *)
(***************************************************************************)
EXTENDS Integers, Sequences, FiniteSets, TLC

VARIABLES
    now,          \* the wall clock, Date.now(), in milliseconds
    ticks,        \* how many times the clock has advanced
    dataFile,     \* data.json: [exists, doc] where doc is the sequence of entries
    counterFile,  \* active_counter.json: [exists |-> FALSE] or the counter record
    out,          \* what the command just run returned/printed; idle at the prompt
    appended,     \* history: the entries returned by saveEntry, in call order
    runMs,        \* history: ms the clock advanced while the counter was RUNNING
    segMs,        \* history: ms the clock advanced in the current running segment
    segMin,       \* history: the closed running segments, each rounded to minutes,
                  \* summed
    program,      \* the front end that runs: "cli" (cli.js) or "web" (Terminal.tsx)
    shown,        \* the report or table the command just run printed
    localStore,   \* localStorage item terminal_time_tracker_data: [exists, doc]
    writing,      \* a writeFileSync of data.json that has truncated the file and
                  \* not yet written it out
    reader,       \* what a second cli.js process read from data.json meanwhile
    bootAt        \* the instant the running cli.js process was started

hist == <<runMs, segMs, segMin>>
others == <<program, shown, localStore, writing, reader, bootAt>>
vars == <<now, ticks, dataFile, counterFile, out, appended, runMs, segMs, segMin,
          program, shown, localStore, writing, reader, bootAt>>

----------------------------------------------------------------------------
(* Bounds of the model *)

MaxTicks == 2           \* clock advances explored
MaxEntries == 2         \* appends (saveEntry calls) explored

\* Clock advances between two commands (ms).
Steps == {1500, 28500, 60000}

----------------------------------------------------------------------------
(* Text *)

Digits == {"0", "1", "2", "3", "4", "5", "6", "7", "8", "9"}

DigitVal(c) ==
    CASE c = "0" -> 0 [] c = "1" -> 1 [] c = "2" -> 2 [] c = "3" -> 3
      [] c = "4" -> 4 [] c = "5" -> 5 [] c = "6" -> 6 [] c = "7" -> 7
      [] c = "8" -> 8 [] c = "9" -> 9

\* Array.prototype.join(' ') over a list of tokens
RECURSIVE Join(_)
Join(toks) ==
    IF toks = <<>> THEN <<>>
    ELSE IF Len(toks) = 1 THEN toks[1]
    ELSE toks[1] \o <<" ">> \o Join(Tail(toks))

\* Array.prototype.slice(n) with a 0-based start index
Slice(a, n) == IF n >= Len(a) THEN <<>> ELSE SubSeq(a, n + 1, Len(a))

\* length of the longest prefix of s, from position i (1-based), made of digits
RECURSIVE DigitRun(_, _)
DigitRun(s, i) ==
    IF i <= Len(s) /\ s[i] \in Digits THEN 1 + DigitRun(s, i + 1) ELSE 0

\* the value of the decimal digits s[i .. i+n-1]
RECURSIVE DigitsValue(_, _, _)
DigitsValue(s, i, n) ==
    IF n = 0 THEN 0
    ELSE 10 * DigitsValue(s, i, n - 1) + DigitVal(s[i + n - 1])

RECURSIVE Pow10(_)
Pow10(n) == IF n = 0 THEN 1 ELSE 10 * Pow10(n - 1)

\* parseFloat: an optional sign, then the longest decimal prefix
\* (digits, optionally "." and digits); NaN when there is no such prefix.
\* The number is the exact fraction num/den.
NaN == [nan |-> TRUE, num |-> 0, den |-> 1]

parseFloat(s) ==
    LET signed == Len(s) >= 1 /\ s[1] \in {"-", "+"}
        sgn    == IF Len(s) >= 1 /\ s[1] = "-" THEN -1 ELSE 1
        i0     == IF signed THEN 2 ELSE 1
        nInt   == DigitRun(s, i0)
        dot    == i0 + nInt
        hasDot == dot <= Len(s) /\ s[dot] = "."
        nFrac  == IF hasDot THEN DigitRun(s, dot + 1) ELSE 0
    IN  IF nInt = 0 /\ nFrac = 0 THEN NaN
        ELSE [nan |-> FALSE,
              num |-> sgn * (DigitsValue(s, i0, nInt) * Pow10(nFrac)
                             + DigitsValue(s, dot + 1, nFrac)),
              den |-> Pow10(nFrac)]

isNaN(x) == x.nan

\* Math.round of the fraction n/d (d > 0): floor(n/d + 1/2), halves go up
MathRound(n, d) == (2 * n + d) \div (2 * d)

\* /^\d{4}-\d{2}-\d{2}$/.test(s)
IsDateToken(s) ==
    /\ Len(s) = 10
    /\ \A i \in {1, 2, 3, 4, 6, 7, 9, 10} : s[i] \in Digits
    /\ s[5] = "-"
    /\ s[8] = "-"

\* new Date().toISOString().split('T')[0]: the UTC calendar day of the clock;
\* the window explored lies within one day
DayOne == <<"2", "0", "2", "3", "-", "0", "1", "-", "3", "1">>
Today(t) == DayOne

\* The characters compared by a sort, in the order of their code units.
Alphabet ==
    <<" ", ",", "-", ".", "0", "1", "2", "3", "4", "5", "6", "7", "8", "9",
      "O", "[", "]", "a", "b", "c", "d", "e", "f", "g", "h", "i", "j", "k",
      "l", "m", "n", "o", "p", "q", "r", "s", "t", "u", "v", "w", "x", "y", "z">>

CharCode(c) == CHOOSE i \in 1..Len(Alphabet) : Alphabet[i] = c

Codes(s) == [i \in 1..Len(s) |-> CharCode(s[i])]

\* a < b for two strings given as code units, the way JavaScript's < and
\* the default sort compare them
RECURSIVE SeqLess(_, _)
SeqLess(a, b) ==
    IF b = <<>> THEN FALSE
    ELSE IF a = <<>> THEN TRUE
    ELSE IF a[1] # b[1] THEN a[1] < b[1]
    ELSE SeqLess(Tail(a), Tail(b))

\* String.prototype.startsWith
startsWith(s, p) == Len(p) <= Len(s) /\ SubSeq(s, 1, Len(p)) = p

\* Array.prototype.sort over items [key, val], the key being what the
\* comparison looks at; the sort is stable
RECURSIVE Insert(_, _)
Insert(sorted, item) ==
    IF sorted = <<>> THEN <<item>>
    ELSE IF SeqLess(item.key, sorted[1].key) THEN <<item>> \o sorted
    ELSE <<sorted[1]>> \o Insert(Tail(sorted), item)

RECURSIVE sort(_)
sort(items) ==
    IF items = <<>> THEN <<>>
    ELSE Insert(sort(SubSeq(items, 1, Len(items) - 1)), items[Len(items)])

Vals(items) == [i \in 1..Len(items) |-> items[i].val]

\* An object's own keys as Object.entries lists them: the keys that are
\* array indices (canonical decimal numbers below 2^32 - 1) in ascending
\* numeric order, then the other keys in the order they were first assigned.
MaxArrayIndex == <<"4", "2", "9", "4", "9", "6", "7", "2", "9", "5">>

IsArrayIndex(key) ==
    /\ key # <<>>
    /\ \A i \in 1..Len(key) : key[i] \in Digits
    /\ Len(key) = 1 \/ key[1] # "0"
    /\ \/ Len(key) < Len(MaxArrayIndex)
       \/ Len(key) = Len(MaxArrayIndex) /\ SeqLess(Codes(key), Codes(MaxArrayIndex))

\* the keys assigned, each once, in the order of its first assignment
RECURSIVE FirstAssigned(_)
FirstAssigned(keys) ==
    IF keys = <<>> THEN <<>>
    ELSE LET before == FirstAssigned(SubSeq(keys, 1, Len(keys) - 1))
             k == keys[Len(keys)]
         IN  IF \E i \in 1..Len(before) : before[i] = k
             THEN before ELSE Append(before, k)

OwnKeys(keys) ==
    LET assigned == FirstAssigned(keys)
        indices == SelectSeq(assigned, IsArrayIndex)
        names == SelectSeq(assigned, LAMBDA k : ~IsArrayIndex(k))
    IN  Vals(sort([i \in 1..Len(indices) |->
                     [key |-> <<Len(indices[i])>> \o Codes(indices[i]),
                      val |-> indices[i]]]))
        \o names

\* Number.prototype.toFixed(2) of mins / 60, in hundredths of an hour
\* (mins * 5 / 3 is never half-way between two hundredths)
toFixed2(mins) == MathRound(5 * mins, 3)

----------------------------------------------------------------------------
(* Storage and logic service: TrackerService *)

MsPerMinute == 60000

NoData == [exists |-> FALSE, doc |-> <<>>]
NoCounter == [exists |-> FALSE]

\* Outcomes of fs.readFileSync + JSON.parse on data.json
ReadOk == {"ok"}
ReadAny == {"ok", "throws"}

\* getEntries: [] when the file is missing, [] when reading or parsing throws
getEntries(file, rd) ==
    IF ~file.exists THEN <<>>
    ELSE IF rd = "throws" THEN <<>>
    ELSE file.doc

\* the record saveEntry builds; its timestamp (Date.now(), kept for audit
\* and read by no command) is left out of the model
NewEntry(id, project, durationMinutes, date, description) ==
    [id |-> id, project |-> project, durationMinutes |-> durationMinutes,
     date |-> date, description |-> description]

\* (variant) saveEntry that writes the new entry alone
saveEntryAlone(file, newEntry, rd) ==
    [exists |-> TRUE, doc |-> <<newEntry>>]

\* saveEntry: read, push, rewrite the whole document
saveEntry(file, newEntry, rd) ==
    [exists |-> TRUE, doc |-> Append(getEntries(file, rd), newEntry)]

\* crypto.randomBytes(4).toString('hex'): any id of the id space, drawn
\* without looking at the ids already stored
RandomIds == {<<"0", "0", "0", "0", "0", "0", "0", "a">>,
              <<"f", "f", "f", "f", "f", "f", "f", "f">>}

\* getActiveCounter: null when the file is missing
getActiveCounter(file) == file

IsActive(state) == state.exists

startCounter(project, description, t) ==
    [exists |-> TRUE, project |-> project, description |-> description,
     startTime |-> t, lastStartTime |-> <<t>>, accumulatedTime |-> 0,
     paused |-> FALSE]

\* case 'start': the check that refuses to start over an active counter
StartRefusesRunningOnly(active) == IsActive(active) /\ ~active.paused  \* (variant)
StartRefuses(active) == IsActive(active)

\* the guards of pauseCounter, resumeCounter and stopCounter: return null
PauseReturnsNull(state) == ~IsActive(state) \/ state.paused
ResumeReturnsNullIfAbsent(state) == ~IsActive(state)  \* (variant)
ResumeReturnsNull(state) == ~IsActive(state) \/ ~state.paused
StopReturnsNull(state) == ~IsActive(state)

\* (variant) pauseCounter assigning the last segment instead of adding it
pauseCounterAssign(state, t) ==
    [state EXCEPT !.accumulatedTime = t - state.lastStartTime[1],
                  !.paused = TRUE,
                  !.lastStartTime = <<>>]

\* (variant) pauseCounter rounding each segment to whole minutes
pauseCounterRounded(state, t) ==
    [state EXCEPT !.accumulatedTime =
                      @ + MsPerMinute * MathRound(t - state.lastStartTime[1], MsPerMinute),
                  !.paused = TRUE,
                  !.lastStartTime = <<>>]

\* (variant) pauseCounter leaving lastStartTime as it was
pauseCounterKeep(state, t) ==
    [state EXCEPT !.accumulatedTime = @ + (t - state.lastStartTime[1]),
                  !.paused = TRUE]

\* pauseCounter, past its guard: the state it writes
pauseCounter(state, t) ==
    [state EXCEPT !.accumulatedTime = @ + (t - state.lastStartTime[1]),
                  !.paused = TRUE,
                  !.lastStartTime = <<>>]

\* (variant) resumeCounter starting the accumulation afresh
resumeCounterReset(state, t) ==
    [state EXCEPT !.lastStartTime = <<t>>, !.paused = FALSE, !.accumulatedTime = 0]

\* (variant) resumeCounter taking the resume as a new start
resumeCounterRestart(state, t) ==
    [state EXCEPT !.lastStartTime = <<t>>, !.paused = FALSE, !.startTime = t]

\* resumeCounter, past its guard: the state it writes
resumeCounter(state, t) ==
    [state EXCEPT !.lastStartTime = <<t>>, !.paused = FALSE]

\* (variant) stopCounter timing the running segment with a stopwatch of the
\* process, which only knows the time since the process started
StopElapsedInProcess(state, t) ==
    IF ~state.paused
    THEN state.accumulatedTime
         + (t - (IF state.lastStartTime[1] > bootAt
                 THEN state.lastStartTime[1] ELSE bootAt))
    ELSE state.accumulatedTime

\* stopCounter: totalElapsed
StopElapsed(state, t) ==
    IF ~state.paused
    THEN state.accumulatedTime + (t - state.lastStartTime[1])
    ELSE state.accumulatedTime

\* (variant) stopCounter rounding up, as Math.ceil would
StopMinutesCeil(state, t) ==
    (StopElapsed(state, t) + MsPerMinute - 1) \div MsPerMinute

\* stopCounter: durationMinutes = Math.round(totalElapsed / (1000 * 60))
StopMinutes(state, t) == MathRound(StopElapsed(state, t), MsPerMinute)

\* status: totalElapsed and elapsedMinutes
\* (variant) status leaving out the segment that is still running
StatusElapsedAccumulated(active, t) == active.accumulatedTime

\* case 'status': totalElapsed
StatusElapsed(active, t) ==
    IF ~active.paused
    THEN active.accumulatedTime + (t - active.lastStartTime[1])
    ELSE active.accumulatedTime

StatusMinutes(active, t) == MathRound(StatusElapsed(active, t), MsPerMinute)

\* formatDuration, and the same text built in place by storage.ts: hours with
\* two decimals and minutes; NaN hours when the value is not a number
formatDuration(mins) ==
    IF mins.number
    THEN [nan |-> FALSE, hours |-> toFixed2(mins.mins), mins |-> mins.mins]
    ELSE [nan |-> TRUE, hours |-> 0, mins |-> 0]

Number(n) == [number |-> TRUE, mins |-> n]
Text == [number |-> FALSE, mins |-> 0]

\* The properties an object literal {} inherits from Object.prototype: a
\* lookup of one of these names on a fresh {} finds a function or an object,
\* not undefined.
Proto == <<"_", "_", "p", "r", "o", "t", "o", "_", "_">>

ObjectPrototypeKeys ==
    { <<"c", "o", "n", "s", "t", "r", "u", "c", "t", "o", "r">>,
      <<"t", "o", "S", "t", "r", "i", "n", "g">>,
      <<"v", "a", "l", "u", "e", "O", "f">>,
      <<"h", "a", "s", "O", "w", "n", "P", "r", "o", "p", "e", "r", "t", "y">>,
      <<"i", "s", "P", "r", "o", "t", "o", "t", "y", "p", "e", "O", "f">>,
      <<"p", "r", "o", "p", "e", "r", "t", "y", "I", "s", "E", "n", "u", "m", "e", "r", "a", "b", "l", "e">>,
      <<"t", "o", "L", "o", "c", "a", "l", "e", "S", "t", "r", "i", "n", "g">>,
      <<"_", "_", "d", "e", "f", "i", "n", "e", "G", "e", "t", "t", "e", "r", "_", "_">>,
      <<"_", "_", "d", "e", "f", "i", "n", "e", "S", "e", "t", "t", "e", "r", "_", "_">>,
      <<"_", "_", "l", "o", "o", "k", "u", "p", "G", "e", "t", "t", "e", "r", "_", "_">>,
      <<"_", "_", "l", "o", "o", "k", "u", "p", "S", "e", "t", "t", "e", "r", "_", "_">>,
      Proto }

RECURSIVE SumMinutes(_)
SumMinutes(es) ==
    IF es = <<>> THEN 0 ELSE es[1].durationMinutes + SumMinutes(Tail(es))

\* entries.filter(e => e.date.startsWith(month)) when month is given
Filtered(entries, month) ==
    IF month # <<>>
    THEN SelectSeq(entries, LAMBDA e : startsWith(e.date, month))
    ELSE entries

\* projectStats[project] after the forEach: each step stores
\* (projectStats[e.project] || 0) + e.durationMinutes.  On a name inherited
\* from Object.prototype the first lookup finds a function (truthy), and +
\* then concatenates text.
ProjectStat(filtered, project) ==
    IF project \in ObjectPrototypeKeys THEN Text
    ELSE Number(SumMinutes(SelectSeq(filtered, LAMBDA e : e.project = project)))

\* Object.entries(projectStats): an assignment to __proto__ of a value that
\* is no object creates no property
ProjectKeys(filtered) ==
    OwnKeys(SelectSeq([i \in 1..Len(filtered) |-> filtered[i].project],
                      LAMBDA k : k # Proto))

\* the "By Project" lines
ByProject(filtered) ==
    LET keys == ProjectKeys(filtered)
    IN  [i \in 1..Len(keys) |->
            [project |-> keys[i],
             time |-> formatDuration(ProjectStat(filtered, keys[i]))]]

\* dayStats[date] after the forEach
DayEntries(filtered, date) == SelectSeq(filtered, LAMBDA e : e.date = date)

DayKeys(filtered) == OwnKeys([i \in 1..Len(filtered) |-> filtered[i].date])

\* String([date, data]), what the default sort compares
ObjectObject ==
    <<"[", "o", "b", "j", "e", "c", "t", " ", "O", "b", "j", "e", "c", "t", "]">>

EntryString(date) == date \o <<",">> \o ObjectObject

\* generateReport: Object.entries(dayStats).sort(), the days in the order
\* printed
ReportDays(filtered) ==
    LET keys == DayKeys(filtered)
    IN  Vals(sort([i \in 1..Len(keys) |->
                      [key |-> Codes(EntryString(keys[i])), val |-> keys[i]]]))

\* (variant) generateTable listing the days unsorted
TableDaysUnsorted(filtered) == DayKeys(filtered)

\* generateTable: Object.entries(dayStats).sort()
TableDays(filtered) ==
    LET keys == DayKeys(filtered)
    IN  Vals(sort([i \in 1..Len(keys) |->
                      [key |-> Codes(EntryString(keys[i])), val |-> keys[i]]]))

NoDataFound == [kind |-> "No data found."]

\* (variant) the same text whether the store or only the selection is empty
NoEntriesFoundAsNoData(month) == NoDataFound

\* `No entries found for ${month || 'all time'}.`
NoEntriesFound(month) == [kind |-> "No entries found for", month |-> month]

\* generateReport(month), entries being what getEntries returned
generateReport(entries, month) ==
    IF Len(entries) = 0 THEN NoDataFound
    ELSE LET filtered == Filtered(entries, month)
             days == ReportDays(filtered)
         IN  IF Len(filtered) = 0 THEN NoEntriesFound(month)
             ELSE [kind |-> "report",
                   title |-> month,
                   totalTime |-> formatDuration(Number(SumMinutes(filtered))),
                   byProject |-> ByProject(filtered),
                   byDay |-> [i \in 1..Len(days) |->
                       [date |-> days[i],
                        time |-> formatDuration(
                            Number(SumMinutes(DayEntries(filtered, days[i])))),
                        entries |-> DayEntries(filtered, days[i])]]]

\* Array.prototype.join('; ')
RECURSIVE JoinSemi(_)
JoinSemi(texts) ==
    IF texts = <<>> THEN <<>>
    ELSE IF Len(texts) = 1 THEN texts[1]
    ELSE texts[1] \o <<";", " ">> \o JoinSemi(Tail(texts))

\* generateTable(month)
generateTable(entries, month) ==
    IF Len(entries) = 0 THEN NoDataFound
    ELSE LET filtered == Filtered(entries, month)
             days == TableDays(filtered)
         IN  IF Len(filtered) = 0 THEN NoEntriesFound(month)
             ELSE [kind |-> "table",
                   rows |-> [i \in 1..Len(days) |->
                       LET data == DayEntries(filtered, days[i])
                       IN  [date |-> days[i],
                            hours |-> toFixed2(SumMinutes(data)),
                            descriptions |-> JoinSemi(
                                [k \in 1..Len(data) |-> data[k].description])]]]

----------------------------------------------------------------------------
(* Command lines explored *)

ProjW == <<"w">>
ProjQ == <<"q", "a">>
TokFix == <<"f", "i", "x">>
TokApi == <<"a", "p", "i">>
TokOneAndHalf == <<"1", ".", "5">>
TokMinusOne == <<"-", "1">>
TokHalf == <<"0", ".", "5">>
TokWord == <<"x", "y">>
TokDate == <<"2", "0", "2", "3", "-", "0", "1", "-", "1", "5">>

\* argument lists of the add command
AddArgs ==
    { <<ProjW, TokMinusOne, TokFix>>,
      <<ProjQ, TokOneAndHalf, TokDate, TokFix, TokApi>>,
      <<ProjW, TokHalf, TokDate>>,
      <<ProjW, TokWord, TokFix>>,
      <<ProjW, TokHalf>> }

\* argument lists of the start command
StartArgs ==
    { <<ProjQ, TokFix, TokApi>>,
      <<ProjW>> }

Proj7 == <<"7">>
ProjConstructor == <<"c", "o", "n", "s", "t", "r", "u", "c", "t", "o", "r">>
TokEmpty == <<>>                \* the argument "" of a one-shot command line
TokDateFeb == <<"2", "0", "2", "3", "-", "0", "2", "-", "0", "1">>
MonthJan == <<"2", "0", "2", "3", "-", "0", "1">>
MonthFeb == <<"2", "0", "2", "3", "-", "0", "2">>

\* argument lists of the add command explored with report and table
EntryArgs ==
    { <<ProjW, TokHalf, TokFix>>,
      <<Proj7, TokOneAndHalf, TokDate, TokFix, TokApi>>,
      <<ProjW, TokHalf, TokEmpty>>,
      <<ProjConstructor, TokOneAndHalf, TokDateFeb, TokFix>>,
      <<ProjW, TokHalf, TokDate>> }

\* argument lists of report and table
MonthArgs == { <<>>, <<MonthJan>>, <<MonthFeb>> }

----------------------------------------------------------------------------
(* Commands: executeCommand *)

\* out: the command and its arguments, what the service call returned
\* ("null", or the kind of value), the message printed and the minutes shown
Idle == [cmd |-> "idle", args |-> <<>>, ret |-> "none", msg |-> "", minutes |-> 0]

Out(cmd, args, ret, msg, minutes) ==
    [cmd |-> cmd, args |-> args, ret |-> ret, msg |-> msg, minutes |-> minutes]

NoShown == [kind |-> "none"]
NoItem == [exists |-> FALSE, doc |-> <<>>]
NotWriting == [open |-> FALSE]
NoReader == [got |-> FALSE]

\* the state both front ends start from
Fresh ==
    /\ now = 0
    /\ ticks = 0
    /\ dataFile = NoData
    /\ counterFile = NoCounter
    /\ out = Idle
    /\ appended = <<>>
    /\ runMs = 0
    /\ segMs = 0
    /\ segMin = 0
    /\ shown = NoShown
    /\ localStore = NoItem
    /\ writing = NotWriting
    /\ reader = NoReader
    /\ bootAt = 0

\* node cli.js
Init == Fresh /\ program = "cli"

\* Time passes while the program waits for the next command.
Tick(d) ==
    /\ program = "cli"
    /\ out = Idle
    /\ UNCHANGED others
    /\ ticks < MaxTicks
    /\ ticks' = ticks + 1
    /\ now' = now + d
    /\ IF counterFile.exists /\ ~counterFile.paused
       THEN runMs' = runMs + d /\ segMs' = segMs + d
       ELSE UNCHANGED <<runMs, segMs>>
    /\ UNCHANGED <<dataFile, counterFile, out, appended, segMin>>

\* The command has returned and the next one is awaited: rl.prompt() in
\* interactive mode, the end of the process in one-shot mode.
Prompt ==
    /\ out # Idle
    /\ out.ret # "saved"
    /\ ~writing.open
    /\ out' = Idle
    /\ shown' = NoShown
    /\ UNCHANGED <<program, localStore, writing, reader, bootAt>>
    /\ IF counterFile.exists
       THEN UNCHANGED hist
       ELSE runMs' = 0 /\ segMs' = 0 /\ segMin' = 0
    /\ UNCHANGED <<now, ticks, dataFile, counterFile, appended>>

\* case 'start'
Start(args) ==
    /\ program = "cli"
    /\ out = Idle
    /\ UNCHANGED others
    /\ IF Len(args) < 2
       THEN /\ out' = Out("start", args, "none", "usage", 0)
            /\ UNCHANGED <<now, ticks, dataFile, counterFile, appended, hist>>
       ELSE LET active == getActiveCounter(counterFile)
            IN  IF StartRefuses(active)
                THEN /\ out' = Out("start", args, "none", "already running", 0)
                     /\ UNCHANGED <<now, ticks, dataFile, counterFile, appended, hist>>
                ELSE /\ counterFile' = startCounter(args[1], Join(Slice(args, 1)), now)
                     /\ out' = Out("start", args, "state", "started", 0)
                     /\ runMs' = 0 /\ segMs' = 0 /\ segMin' = 0
                     /\ UNCHANGED <<now, ticks, dataFile, appended>>

\* case 'pause'
Pause ==
    /\ program = "cli"
    /\ out = Idle
    /\ UNCHANGED others
    /\ LET state == getActiveCounter(counterFile)
       IN  IF PauseReturnsNull(state)
           THEN /\ out' = Out("pause", <<>>, "null",
                              IF ~IsActive(getActiveCounter(counterFile))
                              THEN "no active counter" ELSE "already paused", 0)
                /\ UNCHANGED <<now, ticks, dataFile, counterFile, appended, hist>>
           ELSE /\ counterFile' = pauseCounter(state, now)
                /\ out' = Out("pause", <<>>, "state", "paused", 0)
                /\ segMin' = segMin + MathRound(segMs, MsPerMinute)
                /\ segMs' = 0
                /\ UNCHANGED <<now, ticks, dataFile, appended, runMs>>

\* case 'resume'
Resume ==
    /\ program = "cli"
    /\ out = Idle
    /\ UNCHANGED others
    /\ LET state == getActiveCounter(counterFile)
       IN  IF ResumeReturnsNull(state)
           THEN /\ out' = Out("resume", <<>>, "null",
                              IF ~IsActive(getActiveCounter(counterFile))
                              THEN "no active counter" ELSE "already running", 0)
                /\ UNCHANGED <<now, ticks, dataFile, counterFile, appended, hist>>
           ELSE /\ counterFile' = resumeCounter(state, now)
                /\ out' = Out("resume", <<>>, "state", "resumed", 0)
                /\ UNCHANGED <<now, ticks, dataFile, appended, hist>>

\* case 'stop'
Stop(id, rd) ==
    /\ program = "cli"
    /\ out = Idle
    /\ UNCHANGED others
    /\ LET state == getActiveCounter(counterFile)
       IN  IF StopReturnsNull(state)
           THEN /\ out' = Out("stop", <<>>, "null", "no active counter", 0)
                /\ UNCHANGED <<now, ticks, dataFile, counterFile, appended, hist>>
           ELSE LET durationMinutes == StopMinutes(state, now)
                    entry == NewEntry(id, state.project, durationMinutes,
                                      Today(now), state.description)
                IN  /\ Len(appended) < MaxEntries
                    /\ dataFile' = saveEntry(dataFile, entry, rd)
                    /\ counterFile' = NoCounter
                    /\ out' = Out("stop", <<>>, "result", "stopped", durationMinutes)
                    /\ appended' = Append(appended, entry)
                    /\ segMin' = segMin + MathRound(segMs, MsPerMinute)
                    /\ segMs' = 0
                    /\ UNCHANGED <<now, ticks, runMs>>

\* case 'status'
Status ==
    /\ program = "cli"
    /\ out = Idle
    /\ UNCHANGED others
    /\ LET active == getActiveCounter(counterFile)
       IN  out' = IF IsActive(active)
                  THEN Out("status", <<>>, "state",
                           IF active.paused THEN "Paused" ELSE "Running",
                           StatusMinutes(active, now))
                  ELSE Out("status", <<>>, "null", "no active counter", 0)
    /\ UNCHANGED <<now, ticks, dataFile, counterFile, appended, hist>>

\* (variant) an add that never misses the description
DescriptionNeverMissing(args, nextArgIndex) == FALSE

\* case 'add': args.length <= nextArgIndex
DescriptionMissing(args, nextArgIndex) == Len(args) <= nextArgIndex

\* case 'add'
Add(args, id, rd) ==
    /\ program = "cli"
    /\ out = Idle
    /\ UNCHANGED others
    /\ IF Len(args) < 3
       THEN /\ out' = Out("add", args, "none", "usage", 0)
            /\ UNCHANGED <<now, ticks, dataFile, counterFile, appended, hist>>
       ELSE LET project == args[1]
                hours == parseFloat(args[2])
            IN  IF isNaN(hours)
                THEN /\ out' = Out("add", args, "none", "not a number", 0)
                     /\ UNCHANGED <<now, ticks, dataFile, counterFile, appended, hist>>
                ELSE LET minutes == MathRound(hours.num * 60, hours.den)
                         dated == args[3] # <<>> /\ IsDateToken(args[3])
                         date == IF dated THEN args[3] ELSE Today(now)
                         nextArgIndex == IF dated THEN 3 ELSE 2
                     IN  IF DescriptionMissing(args, nextArgIndex)
                         THEN /\ out' = Out("add", args, "none", "description is mandatory", 0)
                              /\ UNCHANGED <<now, ticks, dataFile, counterFile,
                                             appended, hist>>
                         ELSE LET description == Join(Slice(args, nextArgIndex))
                                  entry == NewEntry(id, project, minutes, date,
                                                    description)
                              IN  /\ Len(appended) < MaxEntries
                                  /\ dataFile' = saveEntry(dataFile, entry, rd)
                                  /\ out' = Out("add", args, "entry", "added", minutes)
                                  /\ appended' = Append(appended, entry)
                                  /\ UNCHANGED <<now, ticks, counterFile, hist>>

\* the optional month argument: args[0], falsy when absent or ""
MonthOf(args) == IF args = <<>> THEN <<>> ELSE args[1]

\* case 'report'
Report(args, rd) ==
    /\ program = "cli"
    /\ out = Idle
    /\ shown' = generateReport(getEntries(dataFile, rd), MonthOf(args))
    /\ out' = Out("report", args, "none", "printed", 0)
    /\ UNCHANGED <<now, ticks, dataFile, counterFile, appended, hist>>
    /\ UNCHANGED <<program, localStore, writing, reader, bootAt>>

\* case 'table'
Table(args, rd) ==
    /\ program = "cli"
    /\ out = Idle
    /\ shown' = generateTable(getEntries(dataFile, rd), MonthOf(args))
    /\ out' = Out("table", args, "none", "printed", 0)
    /\ UNCHANGED <<now, ticks, dataFile, counterFile, appended, hist>>
    /\ UNCHANGED <<program, localStore, writing, reader, bootAt>>

\* The process ends between two commands (exit, or the end of a one-shot
\* run) and a new node cli.js is started: nothing a process holds in memory
\* survives, the two files and the clock do.
Exit ==
    /\ program = "cli"
    /\ out = Idle
    /\ bootAt # now
    /\ bootAt' = now
    /\ UNCHANGED <<now, ticks, dataFile, counterFile, out, appended, hist>>
    /\ UNCHANGED <<program, shown, localStore, writing, reader>>

\* One command, or time passing.  R is the set of outcomes a read of
\* data.json can have.
Step(R) ==
    \/ \E d \in Steps : Tick(d)
    \/ Prompt
    \/ \E args \in StartArgs : Start(args)
    \/ Pause
    \/ Resume
    \/ \E id \in RandomIds, rd \in R : Stop(id, rd)
    \/ Status
    \/ \E args \in AddArgs, id \in RandomIds, rd \in R : Add(args, id, rd)

\* Every read of data.json succeeds.
Next == Step(ReadOk)

Spec == Init /\ [][Next]_vars

\* A read of data.json may throw (unreadable file, damaged document).
NextFault == Step(ReadAny)

SpecFault == Init /\ [][NextFault]_vars

\* The process may be ended and started anew between any two commands.
NextRestart ==
    \/ \E d \in Steps : Tick(d)
    \/ Prompt
    \/ Exit
    \/ \E args \in StartArgs : Start(args)
    \/ Pause
    \/ Resume
    \/ \E id \in RandomIds : Stop(id, "ok")
    \/ Status
    \/ \E id \in RandomIds : Add(<<ProjQ, TokOneAndHalf, TokDate, TokFix, TokApi>>, id, "ok")

SpecRestart == Init /\ [][NextRestart]_vars

----------------------------------------------------------------------------
(* stop, one write at a time *)

\* (variant) a stop that goes on to remove the counter without having
\* saved its entry
StopSaveSkipped(id, rd) ==
    /\ program = "cli"
    /\ out = Idle
    /\ UNCHANGED others
    /\ ~StopReturnsNull(getActiveCounter(counterFile))
    /\ Len(appended) < MaxEntries
    /\ out' = Out("stop", <<>>, "saved", "",
                  StopMinutes(getActiveCounter(counterFile), now))
    /\ UNCHANGED <<now, ticks, dataFile, counterFile, appended, hist>>

\* stopCounter of an active counter up to the return of this.saveEntry: the
\* entry is in data.json, active_counter.json is still there
StopSave(id, rd) ==
    /\ program = "cli"
    /\ out = Idle
    /\ UNCHANGED others
    /\ LET state == getActiveCounter(counterFile)
       IN  /\ ~StopReturnsNull(state)
           /\ Len(appended) < MaxEntries
           /\ LET durationMinutes == StopMinutes(state, now)
                  entry == NewEntry(id, state.project, durationMinutes,
                                    Today(now), state.description)
              IN  /\ dataFile' = saveEntry(dataFile, entry, rd)
                  /\ appended' = Append(appended, entry)
                  /\ out' = Out("stop", <<>>, "saved", "", durationMinutes)
    /\ UNCHANGED <<now, ticks, counterFile, hist>>

\* fs.unlinkSync(ACTIVE_COUNTER_FILE), and the stop returns
StopUnlink ==
    /\ out.cmd = "stop"
    /\ out.ret = "saved"
    /\ counterFile' = NoCounter
    /\ out' = Out("stop", <<>>, "result", "stopped", out.minutes)
    /\ segMin' = segMin + MathRound(segMs, MsPerMinute)
    /\ segMs' = 0
    /\ UNCHANGED <<now, ticks, dataFile, appended, runMs>>
    /\ UNCHANGED others

\* the process is ended between the two writes of a stop; a new one is
\* started
Crash ==
    /\ out.cmd = "stop"
    /\ out.ret = "saved"
    /\ out' = Idle
    /\ bootAt' = now
    /\ UNCHANGED <<now, ticks, dataFile, counterFile, appended, hist>>
    /\ UNCHANGED <<program, shown, localStore, writing, reader>>

\* The commands, a stop being two steps; a read of data.json may throw.
NextCrash ==
    \/ \E d \in Steps : Tick(d)
    \/ Prompt
    \/ \E args \in StartArgs : Start(args)
    \/ Pause
    \/ Resume
    \/ \E id \in RandomIds, rd \in ReadAny : StopSave(id, rd)
    \/ StopUnlink
    \/ Crash
    \/ Status
    \/ \E id \in RandomIds, rd \in ReadAny :
          Add(<<ProjW, TokMinusOne, TokFix>>, id, rd)

SpecCrash == Init /\ [][NextCrash]_vars

\* The commands on the entry store: add, report and table.
EntriesStep(R) ==
    \/ Prompt
    \/ \E args \in EntryArgs, id \in RandomIds, rd \in R : Add(args, id, rd)
    \/ \E args \in MonthArgs, rd \in R : Report(args, rd)
    \/ \E args \in MonthArgs, rd \in R : Table(args, rd)

NextEntries == EntriesStep(ReadOk)

SpecEntries == Init /\ [][NextEntries]_vars

----------------------------------------------------------------------------
(* Browser front end: Terminal.tsx over services/storage.ts *)

\* getEntries of storage.ts: [] when the item is missing; JSON.parse is not
\* guarded, so a damaged item makes the call throw
StorageGetEntries(item, rd) ==
    IF ~item.exists THEN [threw |-> FALSE, entries |-> <<>>]
    ELSE IF rd = "throws" THEN [threw |-> TRUE, entries |-> <<>>]
    ELSE [threw |-> FALSE, entries |-> item.doc]

\* Math.random().toString(36).substring(2, 9)
StorageIds == {<<"k", "3", "x", "9", "q", "z", "1">>,
               <<"0", "a", "b", "c", "d", "e", "f">>}

\* saveEntry of storage.ts, past its read: the item it sets
StorageSaveEntry(entries, newEntry) ==
    [exists |-> TRUE, doc |-> Append(entries, newEntry)]

\* generateReport of storage.ts: the days sorted with localeCompare, which
\* orders dates of the form YYYY-MM-DD as their code units do
StorageDays(filtered) ==
    LET keys == DayKeys(filtered)
    IN  Vals(sort([i \in 1..Len(keys) |->
                      [key |-> Codes(keys[i]), val |-> keys[i]]]))

StorageGenerateReport(entries, month) ==
    IF Len(entries) = 0 THEN NoDataFound
    ELSE LET filtered == Filtered(entries, month)
             days == StorageDays(filtered)
         IN  IF Len(filtered) = 0 THEN NoEntriesFound(month)
             ELSE [kind |-> "report",
                   title |-> month,
                   totalTime |-> formatDuration(Number(SumMinutes(filtered))),
                   byProject |-> ByProject(filtered),
                   byDay |-> [i \in 1..Len(days) |->
                       [date |-> days[i],
                        time |-> Number(SumMinutes(DayEntries(filtered, days[i]))),
                        entries |-> DayEntries(filtered, days[i])]]]

\* argument lists of the browser's add: the tokens of trimmed.split(' '),
\* where two spaces in a row give an empty token
WebAddArgs ==
    { <<ProjW, TokHalf, TokFix>>,
      <<Proj7, TokOneAndHalf, TokEmpty, TokFix>>,
      <<ProjW, TokHalf, TokDate>>,
      <<ProjW, TokWord, TokFix>>,
      <<ProjW, TokHalf>> }

\* open the page
InitWeb == Fresh /\ program = "web"

\* case CommandType.ADD; a throw of Storage.saveEntry is caught by
\* processCommand and shown as a System Error
WebAdd(args, id, rd) ==
    /\ program = "web"
    /\ out = Idle
    /\ UNCHANGED <<now, ticks, dataFile, counterFile, hist>>
    /\ UNCHANGED <<program, shown, writing, reader, bootAt>>
    /\ IF Len(args) < 3
       THEN /\ out' = Out("add", args, "none", "usage", 0)
            /\ UNCHANGED <<localStore, appended>>
       ELSE LET project == args[1]
                hours == parseFloat(args[2])
            IN  IF isNaN(hours)
                THEN /\ out' = Out("add", args, "none", "not a number", 0)
                     /\ UNCHANGED <<localStore, appended>>
                ELSE LET minutes == MathRound(hours.num * 60, hours.den)
                         dated == args[3] # <<>> /\ IsDateToken(args[3])
                         date == IF dated THEN args[3] ELSE Today(now)
                         nextArgIndex == IF dated THEN 3 ELSE 2
                     IN  IF Len(args) <= nextArgIndex
                         THEN /\ out' = Out("add", args, "none",
                                            "description is mandatory", 0)
                              /\ UNCHANGED <<localStore, appended>>
                         ELSE LET description == Join(Slice(args, nextArgIndex))
                                  entry == NewEntry(id, project, minutes, date,
                                                    description)
                                  read == StorageGetEntries(localStore, rd)
                              IN  IF read.threw
                                  THEN /\ out' = Out("add", args, "error",
                                                     "System Error", 0)
                                       /\ UNCHANGED <<localStore, appended>>
                                  ELSE /\ Len(appended) < MaxEntries
                                       /\ localStore' =
                                              StorageSaveEntry(read.entries, entry)
                                       /\ out' = Out("add", args, "entry", "added",
                                                     minutes)
                                       /\ appended' = Append(appended, entry)

\* case CommandType.REPORT
WebReport(args, rd) ==
    /\ program = "web"
    /\ out = Idle
    /\ LET read == StorageGetEntries(localStore, rd)
       IN  IF read.threw
           THEN /\ out' = Out("report", args, "error", "System Error", 0)
                /\ shown' = NoShown
           ELSE /\ out' = Out("report", args, "none", "printed", 0)
                /\ shown' = StorageGenerateReport(read.entries, MonthOf(args))
    /\ UNCHANGED <<now, ticks, dataFile, counterFile, appended, hist>>
    /\ UNCHANGED <<program, localStore, writing, reader, bootAt>>

\* One command typed into the page.  R is the set of outcomes a JSON.parse
\* of the stored item can have.
WebStep(R) ==
    \/ Prompt
    \/ \E args \in WebAddArgs, id \in StorageIds, rd \in R : WebAdd(args, id, rd)
    \/ \E args \in MonthArgs, rd \in R : WebReport(args, rd)

\* The stored item may be damaged.
NextWebFault == WebStep(ReadAny)

SpecWebFault == InitWeb /\ [][NextWebFault]_vars

\* Either front end, every read succeeding.
InitBoth == Fresh /\ program \in {"cli", "web"}

NextBoth == Step(ReadOk) \/ WebStep(ReadOk)

SpecBoth == InitBoth /\ [][NextBoth]_vars

----------------------------------------------------------------------------
(* Two cli.js processes on the same data.json *)

\* fs.writeFileSync(DATA_FILE, text) opens the file with flag 'w', which
\* empties it, and then writes the text: between the two, the file holds a
\* proper prefix of the new document.  saveEntry of an accepted add, up to
\* the point where the file has been opened.
SaveBegin(args, id) ==
    /\ program = "cli"
    /\ out = Idle
    /\ ~writing.open
    /\ Len(args) >= 3
    /\ ~isNaN(parseFloat(args[2]))
    /\ LET hours == parseFloat(args[2])
           minutes == MathRound(hours.num * 60, hours.den)
           dated == args[3] # <<>> /\ IsDateToken(args[3])
           date == IF dated THEN args[3] ELSE Today(now)
           nextArgIndex == IF dated THEN 3 ELSE 2
           entry == NewEntry(id, args[1], minutes, date,
                             Join(Slice(args, nextArgIndex)))
       IN  /\ ~DescriptionMissing(args, nextArgIndex)
           /\ Len(appended) < MaxEntries
           /\ writing' = [open |-> TRUE,
                          pre |-> getEntries(dataFile, "ok"),
                          post |-> saveEntry(dataFile, entry, "ok").doc,
                          args |-> args,
                          minutes |-> minutes]
    /\ UNCHANGED <<now, ticks, dataFile, counterFile, out, appended, hist>>
    /\ UNCHANGED <<program, shown, localStore, reader, bootAt>>

\* the write completes and the add prints its entry
SaveEnd ==
    /\ writing.open
    /\ dataFile' = [exists |-> TRUE, doc |-> writing.post]
    /\ appended' = Append(appended, writing.post[Len(writing.post)])
    /\ out' = Out("add", writing.args, "entry", "added", writing.minutes)
    /\ writing' = NotWriting
    /\ UNCHANGED <<now, ticks, counterFile, hist>>
    /\ UNCHANGED <<program, shown, localStore, reader, bootAt>>

\* getEntries in a second process (its report, table or add): while the
\* first process is writing, JSON.parse of the partial text throws and
\* getEntries returns []
ReaderGetEntries ==
    /\ reader' = [got |-> TRUE,
                  entries |-> getEntries(dataFile,
                                         IF writing.open THEN "throws" ELSE "ok"),
                  pre |-> IF writing.open THEN writing.pre ELSE dataFile.doc,
                  post |-> IF writing.open THEN writing.post ELSE dataFile.doc]
    /\ reader' # reader
    /\ UNCHANGED <<now, ticks, dataFile, counterFile, out, appended, hist>>
    /\ UNCHANGED <<program, shown, localStore, writing, bootAt>>

NextTorn ==
    \/ Prompt
    \/ \E args \in EntryArgs, id \in RandomIds : SaveBegin(args, id)
    \/ SaveEnd
    \/ ReaderGetEntries

SpecTorn == Init /\ [][NextTorn]_vars

----------------------------------------------------------------------------
(* Properties *)

\* a step that runs one command
CommandStep(cmd) == out = Idle /\ out'.cmd = cmd

IsPrefix(a, b) == Len(a) <= Len(b) /\ SubSeq(b, 1, Len(a)) = a

Last(a) == a[Len(a)]

\* the elapsed time of a counter at clock reading t, as the specification
\* defines it
ClaimElapsed(c, t) ==
    c.accumulatedTime + (IF c.paused THEN 0 ELSE t - c.lastStartTime[1])

\* the whole number of minutes nearest to ms, a half counting upwards
NearestMinute(ms) ==
    CHOOSE m \in 0..(ms \div MsPerMinute + 1) :
        /\ 2 * ms >= (2 * m - 1) * MsPerMinute
        /\ 2 * ms < (2 * m + 1) * MsPerMinute

\* C1: after any sequence of appends on an initially empty store, getEntries
\* returns exactly the appended entries in call order, and no two of them
\* share an id.
C1Claim ==
    LET entries == getEntries(dataFile, "ok")
    IN  /\ entries = appended
        /\ \A i, j \in 1..Len(entries) :
               i # j => entries[i].id # entries[j].id

\* C2 (as stated): every start command issued while a counter exists
\* signals the conflict and leaves the persisted counter as it was.
C2Original ==
    [][(CommandStep("start") /\ counterFile.exists)
          => (out'.msg = "already running" /\ counterFile' = counterFile)]_vars

\* C2 (amended): a start command issued while a counter exists leaves the
\* persisted counter as it was, never starts, and signals the conflict
\* whenever it carries a project and a description; with fewer arguments
\* it prints the usage line instead.
C2Amended ==
    [][(CommandStep("start") /\ counterFile.exists)
          => /\ counterFile' = counterFile
             /\ out'.msg = (IF Len(out'.args) >= 2
                            THEN "already running" ELSE "usage")]_vars

\* start was refused over a PAUSED counter that had accumulated time
C2Witness ==
    /\ out.cmd = "start"
    /\ out.msg = "already running"
    /\ counterFile.exists
    /\ counterFile.paused
    /\ counterFile.accumulatedTime > 0

\* C3: pause while PAUSED or ABSENT, resume while RUNNING or ABSENT, stop or
\* status while ABSENT return null and change neither the counter file nor
\* the entry store.
C3Theorem ==
    [][(\/ CommandStep("pause") /\ (~counterFile.exists \/ counterFile.paused)
        \/ CommandStep("resume") /\ (~counterFile.exists \/ ~counterFile.paused)
        \/ CommandStep("stop") /\ ~counterFile.exists
        \/ CommandStep("status") /\ ~counterFile.exists)
          => /\ out'.ret = "null"
             /\ counterFile' = counterFile
             /\ dataFile' = dataFile]_vars

\* resume was refused on a RUNNING counter with running time behind it,
\* over a non-empty store
C3Witness ==
    /\ out.cmd = "resume"
    /\ out.ret = "null"
    /\ counterFile.exists
    /\ ~counterFile.paused
    /\ now > counterFile.lastStartTime[1]
    /\ Len(dataFile.doc) > 0

\* C4: a stop issued while a counter is RUNNING or PAUSED appends exactly
\* one entry carrying the counter's project and description, leaves every
\* entry stored before as it was and removes the counter; a start issued
\* while no counter exists (so also the next one after a stop) is accepted.
C4Theorem ==
    [][/\ (CommandStep("stop") /\ counterFile.exists)
            => /\ out'.ret = "result"
               /\ Len(dataFile'.doc) = Len(dataFile.doc) + 1
               /\ IsPrefix(dataFile.doc, dataFile'.doc)
               /\ Last(dataFile'.doc).project = counterFile.project
               /\ Last(dataFile'.doc).description = counterFile.description
               /\ counterFile' = NoCounter
       /\ (CommandStep("start") /\ ~counterFile.exists /\ Len(out'.args) >= 2)
            => /\ out'.msg = "started"
               /\ counterFile'.exists]_vars

\* a start was accepted after a stop had appended the counter's entry
\* behind an entry stored earlier
C4Witness ==
    /\ out.cmd = "start"
    /\ out.msg = "started"
    /\ Len(dataFile.doc) = 2
    /\ dataFile.doc[2].project = ProjQ
    /\ dataFile.doc[2].date = DayOne
    /\ dataFile.doc[1].project = ProjW

\* C5: whenever a counter exists, accumulatedTime plus (now - lastStartTime
\* if it is running) equals the time the clock advanced while the counter
\* was RUNNING; time spent PAUSED is not counted.
C5Theorem ==
    counterFile.exists => ClaimElapsed(counterFile, now) = runMs

\* a counter that ran, and also spent time paused
C5Witness ==
    /\ counterFile.exists
    /\ runMs > 0
    /\ now - counterFile.startTime > runMs

\* C6: the elapsed time of a counter never decreases from one step to the
\* next, whatever pause and resume commands and clock advances occur.
C6Theorem ==
    [][(counterFile.exists /\ counterFile'.exists)
          => ClaimElapsed(counterFile', now') >= ClaimElapsed(counterFile, now)]_vars

\* a counter resumed after running and then waiting paused
C6Witness ==
    /\ out.cmd = "resume"
    /\ out.ret = "state"
    /\ counterFile.accumulatedTime > 0
    /\ now - counterFile.startTime > counterFile.accumulatedTime

\* C7: a stop after less than half a minute of running time (zero included)
\* appends an entry whose durationMinutes is 0.
C7Theorem ==
    [][(CommandStep("stop") /\ counterFile.exists /\ 2 * runMs < MsPerMinute)
          => /\ Len(dataFile'.doc) = Len(dataFile.doc) + 1
             /\ Last(dataFile'.doc).durationMinutes = 0
             /\ out'.minutes = 0]_vars

\* the counter was stopped 1500 ms after its start
C7Witness ==
    /\ out.cmd = "stop"
    /\ out.ret = "result"
    /\ runMs = 1500
    /\ Last(dataFile.doc).durationMinutes = 0

\* C8: the durationMinutes a stop stores is the total running time in ms
\* rounded once to the nearest minute, a half rounding up, however the
\* running time is split into segments.
C8Theorem ==
    (out.cmd = "stop" /\ out.ret = "result")
        => Last(dataFile.doc).durationMinutes = NearestMinute(runMs)

\* a stop whose result differs from the sum of its segments' rounded minutes
C8Witness ==
    /\ out.cmd = "stop"
    /\ out.ret = "result"
    /\ Last(dataFile.doc).durationMinutes = out.minutes
    /\ segMin # out.minutes

\* C9: the entry store is append-only: across any command the stored
\* sequence stays a prefix of the new stored sequence, also when the
\* command's read of the store fails.
C9Claim ==
    [][(out = Idle /\ out' # Idle) => IsPrefix(dataFile.doc, dataFile'.doc)]_vars

\* C10: every stored entry's durationMinutes is a non-negative integer.
C10Claim ==
    \A i \in 1..Len(dataFile.doc) : dataFile.doc[i].durationMinutes \in Nat

\* C19: in every persisted counter state, lastStartTime is null exactly
\* when paused is true, and is a clock reading (an instant that is not in
\* the future) exactly when paused is false.
C19Theorem ==
    counterFile.exists =>
        /\ counterFile.paused <=> counterFile.lastStartTime = <<>>
        /\ ~counterFile.paused =>
               /\ Len(counterFile.lastStartTime) = 1
               /\ counterFile.lastStartTime[1] \in 0..now

\* a counter that was paused, and later one that was resumed after time passed
C19Witness ==
    /\ out.cmd = "pause"
    /\ out.ret = "state"
    /\ counterFile.exists
    /\ counterFile.paused
    /\ counterFile.accumulatedTime > 0

\* C20: status is read-only: it changes neither the persisted counter nor
\* the entry store, and the elapsed time it reports (in whole minutes) is
\* accumulatedTime + (paused ? 0 : now - lastStartTime).
C20Theorem ==
    [][CommandStep("status") =>
          /\ UNCHANGED <<dataFile, counterFile>>
          /\ out'.ret = "state" =>
                 out'.minutes = NearestMinute(ClaimElapsed(counterFile, now))]_vars

\* a status of a resumed, running counter whose running segment counts
C20Witness ==
    /\ out.cmd = "status"
    /\ out.msg = "Running"
    /\ counterFile.accumulatedTime > 0
    /\ now > counterFile.lastStartTime[1]
    /\ out.minutes > MathRound(counterFile.accumulatedTime, MsPerMinute)

\* C12: every entry created by the add command has a non-empty
\* description.
C12Claim ==
    (out.cmd = "add" /\ out.ret = "entry")
        => Last(dataFile.doc).description # <<>>

\* the entries of the store a report or table with the argument list args
\* is about
Selection(args) == Filtered(dataFile.doc, MonthOf(args))

RECURSIVE SumTimes(_)
SumTimes(lines) ==
    IF lines = <<>> THEN 0 ELSE lines[1].time.mins + SumTimes(Tail(lines))

\* C13: for every non-empty filtered set the report's total minutes equal
\* the sum of the selected entries' durationMinutes, every per-project total
\* is a number of minutes and the per-project totals sum to the same value;
\* for an empty filtered set the report is a no-data message.
C13Claim ==
    out.cmd = "report" =>
        IF Selection(out.args) = <<>>
        THEN shown.kind \in {NoDataFound.kind, NoEntriesFound(<<>>).kind}
        ELSE /\ shown.kind = "report"
             /\ ~shown.totalTime.nan
             /\ shown.totalTime.mins = SumMinutes(Selection(out.args))
             /\ \A i \in 1..Len(shown.byProject) : ~shown.byProject[i].time.nan
             /\ SumTimes(shown.byProject) = SumMinutes(Selection(out.args))

\* report r and table t list the same days in the same order with the same
\* per-day totals
SameDays(r, t) ==
    /\ Len(r.byDay) = Len(t.rows)
    /\ \A i \in 1..Len(r.byDay) :
          /\ r.byDay[i].date = t.rows[i].date
          /\ r.byDay[i].time.hours = t.rows[i].hours

\* C14: for the same store and month, generateTable and generateReport
\* emit the same days, in the same order, with identical per-day totals.
C14Theorem ==
    /\ (out.cmd = "table" /\ shown.kind = "table") =>
           LET r == generateReport(dataFile.doc, MonthOf(out.args))
           IN  r.kind = "report" /\ SameDays(r, shown)
    /\ (out.cmd = "report" /\ shown.kind = "report") =>
           LET t == generateTable(dataFile.doc, MonthOf(out.args))
           IN  t.kind = "table" /\ SameDays(shown, t)

\* a table of two days that were entered latest day first
C14Witness ==
    /\ out.cmd = "table"
    /\ shown.kind = "table"
    /\ Len(shown.rows) = 2
    /\ shown.rows[1].date = dataFile.doc[2].date
    /\ shown.rows[2].date = dataFile.doc[1].date

\* C15: report and table answer an empty store with one signal, a
\* non-empty store none of whose entries match the month with a different
\* one, and otherwise print at least one day: never an empty report or table.
C15Theorem ==
    (out.cmd \in {"report", "table"}) =>
        IF dataFile.doc = <<>> THEN shown = NoDataFound
        ELSE IF Selection(out.args) = <<>>
        THEN shown # NoDataFound /\ shown.kind \notin {"report", "table"}
        ELSE /\ shown.kind = out.cmd
             /\ shown.kind = "report" => Len(shown.byDay) >= 1
             /\ shown.kind = "table" => Len(shown.rows) >= 1

\* a table asked of a non-empty store for a month without entries
C15Witness ==
    /\ out.cmd = "table"
    /\ dataFile.doc # <<>>
    /\ Selection(out.args) = <<>>
    /\ shown.kind = NoEntriesFound(<<>>).kind

\* C18: the report lists the projects in the order of their first
\* occurrence among the selected entries, whatever the labels are,
\* purely numeric ones included.
C18Claim ==
    (out.cmd = "report" /\ shown.kind = "report") =>
        LET sel == Selection(out.args)
        IN  [i \in 1..Len(shown.byProject) |-> shown.byProject[i].project]
                = FirstAssigned([i \in 1..Len(sel) |-> sel[i].project])

\* the three validation failures of an add with the argument list args
Rejected(args) ==
    \/ Len(args) < 3
    \/ isNaN(parseFloat(args[2]))
    \/ Len(args) = 3 /\ IsDateToken(args[3])

\* C11: an add rejected for validation (fewer than three arguments,
\* non-numeric hours, or no description after the optional date) reports an
\* error and leaves the entry store and the counter slot unchanged, in the
\* command-line program and in the browser.
C11Theorem ==
    [][(out = Idle /\ out'.cmd = "add" /\ Rejected(out'.args)) =>
          /\ out'.ret = "none"
          /\ out'.msg \in {"usage", "not a number", "description is mandatory"}
          /\ UNCHANGED <<dataFile, counterFile, localStore>>]_vars

\* a dated add without description, refused with entries already stored
C11Witness ==
    /\ out.cmd = "add"
    /\ Len(out.args) = 3
    /\ IsDateToken(out.args[3])
    /\ out.msg = "description is mandatory"
    /\ program = "cli"
    /\ dataFile.doc # <<>>

\* C16: reading a damaged or unreadable entry store yields the empty
\* sequence and raises no error to the caller: no command ends in an error
\* raised by the store.
C16Claim ==
    out.ret # "error"

\* C17: during an append, a reader of the entry store gets either the
\* complete collection from before the append or the complete collection
\* after it, never a partial or empty intermediate document.
C17Claim ==
    reader.got => reader.entries \in {reader.pre, reader.post}

\* C22: a successful pause or resume changes only accumulatedTime,
\* lastStartTime and paused: the counter's project, description and
\* startTime and the whole entry store stay as they were, and resume also
\* leaves accumulatedTime as it was.
C22Theorem ==
    [][((CommandStep("pause") \/ CommandStep("resume")) /\ out'.ret = "state") =>
          /\ counterFile.exists /\ counterFile'.exists
          /\ counterFile'.project = counterFile.project
          /\ counterFile'.description = counterFile.description
          /\ counterFile'.startTime = counterFile.startTime
          /\ dataFile' = dataFile
          /\ out'.cmd = "resume" =>
                 counterFile'.accumulatedTime = counterFile.accumulatedTime]_vars

\* a resume, later than the start, of a counter that has accumulated time,
\* with an entry in the store
C22Witness ==
    /\ out.cmd = "resume"
    /\ out.ret = "state"
    /\ counterFile.accumulatedTime > 0
    /\ counterFile.lastStartTime[1] > counterFile.startTime
    /\ dataFile.doc # <<>>

\* C21: the outcome of a command sequence depends only on the two files
\* and the clock: with the process ended and started anew between any two
\* commands, the store still holds exactly the entries appended, the
\* counter's elapsed time computed from the file and the clock is the time
\* it has been running, and the duration a stop records is that time to the
\* nearest minute, as in one process.
C21Theorem ==
    /\ dataFile.doc = appended
    /\ counterFile.exists => ClaimElapsed(counterFile, now) = runMs
    /\ (out.cmd = "stop" /\ out.ret = "result") =>
           /\ ~counterFile.exists
           /\ out.minutes = NearestMinute(runMs)
           /\ Last(dataFile.doc).durationMinutes = out.minutes

\* a stop in a process started after the counter had run for a minute or more
C21Witness ==
    /\ out.cmd = "stop"
    /\ out.ret = "result"
    /\ runMs >= MsPerMinute
    /\ bootAt = now
    /\ Last(dataFile.doc).durationMinutes >= 1

\* C23: stop persists the derived entry before it removes the counter: in
\* every step that removes the counter file, also after an earlier stop
\* was interrupted between its two writes, the store already ends with the
\* entry derived from that counter.
C23Theorem ==
    [][(counterFile.exists /\ ~counterFile'.exists) =>
          /\ dataFile.doc # <<>>
          /\ Last(dataFile.doc).project = counterFile.project
          /\ Last(dataFile.doc).description = counterFile.description
          /\ Last(dataFile.doc).durationMinutes
                 = NearestMinute(ClaimElapsed(counterFile, now))
          /\ dataFile' = dataFile]_vars

\* a stop completed in a new process after an earlier stop was interrupted
\* between its two writes
C23Witness ==
    /\ out.cmd = "stop"
    /\ out.ret = "result"
    /\ ~counterFile.exists
    /\ bootAt > 0
    /\ Len(dataFile.doc) >= 2
    /\ dataFile.doc[1].project = dataFile.doc[2].project
    /\ dataFile.doc[1].description = dataFile.doc[2].description

====
